---- MODULE Spec2Model ----
(***************************************************************************)
(* Harbor Master: runtime status polling (polling/service.rs) and the      *)
(* detection cache (runtime/cache.rs).                                     *)
(*                                                                         *)
(* Spec      : the PollingService with its spawned tick-loop tasks.        *)
(* CacheSpec : the DetectionCache under a monotonic clock.                 *)
(***************************************************************************)
EXTENDS Integers, Sequences, FiniteSets, Bags, TLC

VARIABLES
    \* ---- PollingService (polling/service.rs) ----
    is_running,        \* Mutex<bool>
    runtimes,          \* RwLock<Vec<Runtime>>, a runtime is named by its id
    failure_counts,    \* RwLock<HashMap<String, u32>>: a function on the stored keys
    tasks,             \* the spawned tick-loop tasks: how many are in each task state
    lastSet,           \* the list most recently passed to set_runtimes
    emitted,           \* status-update events handed to app.emit by the last step
    ret,               \* what the call made by the last step returned (start only)
    \* ---- DetectionCache (runtime/cache.rs) ----
    entries,           \* Mutex<HashMap<RuntimeType, CacheEntry>>
    ttl,               \* Duration the cache was constructed with
    now,               \* Instant::now(), a monotonic clock
    in_flight,         \* bag of the set() calls that read the clock and wait for the lock
    setAt,             \* clock reading of the set() that wrote the stored entry
    cacheLast,         \* the cache operation performed by the last step
    \* ---- RuntimeDetector (runtime/detector.rs) ----
    calls,             \* the detect_docker / detect_podman calls in progress
    all_call,          \* the detect_all call in progress and what it has joined
    origin,            \* per cached kind: was the cache cleared after its result was computed
    returned,          \* what the detect_docker / detect_podman call ending in the last step returned
    \* ---- detect_docker / detect_podman (runtime/docker.rs, runtime/podman.rs) ----
    pipe,              \* the detection pipeline in progress: its stage, timer and result so far
    \* ---- check_status (runtime/status.rs) ----
    check,             \* the check_status call in progress: its timer, its child and its status
    \* ---- parse_version (runtime/version.rs) ----
    ver                \* the parse_version call: its input and, once it returned, its result

pollVars  == <<is_running, runtimes, failure_counts, tasks, lastSet, emitted, ret>>
cacheVars == <<entries, ttl, now, in_flight, setAt, cacheLast>>
detVars   == <<calls, all_call, origin, returned>>
pipeVars  == <<pipe>>
statusVars == <<check>>
versionVars == <<ver>>
vars      == <<pollVars, cacheVars, detVars, pipeVars, statusVars, versionVars>>

\* What the steps of one component leave alone.
nonPollVars  == <<cacheVars, detVars, pipeVars, statusVars, versionVars>>
nonCacheVars == <<pollVars, detVars, pipeVars, statusVars, versionVars>>
nonDetVars   == <<pollVars, pipeVars, statusVars, versionVars>>
nonPipeVars  == <<pollVars, cacheVars, detVars, statusVars, versionVars>>
nonStatusVars == <<pollVars, cacheVars, detVars, pipeVars, versionVars>>
nonVersionVars == <<pollVars, cacheVars, detVars, pipeVars, statusVars>>

None == "none"

Min(a, b) == IF a <= b THEN a ELSE b

Pow2(n) == 2 ^ n

(***************************************************************************)
(* Bounds of the model.                                                    *)
(***************************************************************************)
MaxLoops == 2        \* tick-loop tasks that may exist at once
MaxDrawExp == 4      \* random draws are 0 and the powers of two up to 2^MaxDrawExp

(***************************************************************************)
(* Program constants and value sets.                                       *)
(***************************************************************************)
MaxFailures == 5

RuntimeStatus == {"Running", "Stopped", "Error", "Unknown"}

Docker == "docker-/usr/bin/docker"
Podman == "podman-/usr/bin/podman"

RuntimeIds == {Docker, Podman}

\* The lists detect_all can hand to set_runtimes: Docker's runtimes, then Podman's.
RuntimeLists == { <<>>, <<Docker>>, <<Podman>>, <<Docker, Podman>> }

Draws == {0} \cup { Pow2(k) : k \in 0 .. MaxDrawExp }

(***************************************************************************)
(* A tick-loop task is at `pc`: "tick" (in tick.tick().await), "backoff"   *)
(* (top of the for body) or "probe" (in check_status().await).             *)
(* current_runtimes is what the for loop's iterator still holds: the       *)
(* snapshot when the for loop starts, one runtime less after each          *)
(* iteration.  stopped tells that a stop() has returned since the task     *)
(* was spawned.  Tasks in the same state are interchangeable, so `tasks`   *)
(* counts them per state.                                                  *)
(***************************************************************************)
Rests == UNION { { SubSeq(list, i, Len(list)) : i \in 1 .. Len(list) } : list \in RuntimeLists }

TaskStates ==
    { [pc |-> "tick", current_runtimes |-> <<>>, stopped |-> b] : b \in BOOLEAN }
    \cup
    { [pc |-> p, current_runtimes |-> r, stopped |-> b] :
          p \in {"backoff", "probe"}, r \in Rests, b \in BOOLEAN }

\* `tasks` is indexed by the three fields of a task state.
NoTasks == [p \in {"tick", "backoff", "probe"} |->
              [r \in Rests \cup {<<>>} |-> [b \in BOOLEAN |-> 0]]]

\* How many tasks of ts are in state t, and ts with that number set to n.
At(ts, t) == ts[t.pc][t.current_runtimes][t.stopped]

Put(ts, t, n) == [ts EXCEPT ![t.pc][t.current_runtimes][t.stopped] = n]

RECURSIVE SumOver(_, _)
SumOver(ts, S) ==
    IF S = {} THEN 0
    ELSE LET t == CHOOSE y \in S : TRUE IN At(ts, t) + SumOver(ts, S \ {t})

NumTasks(ts) == SumOver(ts, TaskStates)

\* One more task in state t, one task less in state t.
Spawned(ts, t) == Put(ts, t, At(ts, t) + 1)

Exited(ts, t) == Put(ts, t, At(ts, t) - 1)

\* One task goes from state `from` to state `to`.
Move(ts, from, to) == Spawned(Exited(ts, from), to)

(***************************************************************************)
(* PollingService::new                                                     *)
(***************************************************************************)
PollInit ==
    /\ is_running = FALSE
    /\ runtimes = <<>>
    /\ failure_counts = <<>>
    /\ tasks = NoTasks
    /\ lastSet = <<>>
    /\ emitted = <<>>
    /\ ret = None

(***************************************************************************)
(* PollingService::set_runtimes                                            *)
(***************************************************************************)
\* set_runtimes that drops the counters of the runtimes no longer held.
set_runtimes_pruning(list) ==
    /\ runtimes' = list
    /\ lastSet' = list
    /\ failure_counts' = [k \in { id \in DOMAIN failure_counts :
                                     \E i \in DOMAIN list : list[i] = id } |->
                             failure_counts[k]]
    /\ emitted' = <<>>
    /\ ret' = None
    /\ UNCHANGED <<is_running, tasks>>

\* set_runtimes that extends the held list instead of replacing it.
set_runtimes_extend(list) ==
    /\ runtimes' = runtimes \o list
    /\ lastSet' = list
    /\ emitted' = <<>>
    /\ ret' = None
    /\ UNCHANGED <<is_running, failure_counts, tasks>>

set_runtimes(list) ==
    /\ runtimes' = list
    /\ lastSet' = list
    /\ emitted' = <<>>
    /\ ret' = None
    /\ UNCHANGED <<is_running, failure_counts, tasks>>

(***************************************************************************)
(* PollingService::start: the guard on is_running, then tokio::spawn.      *)
(* The new task waits in tick.tick().await, whose first tick is immediate. *)
(***************************************************************************)
NewTask == [pc |-> "tick", current_runtimes |-> <<>>, stopped |-> FALSE]

\* start without its guard on is_running.
start_unguarded ==
    /\ NumTasks(tasks) < MaxLoops
    /\ is_running' = TRUE
    /\ tasks' = Spawned(tasks, NewTask)
    /\ ret' = "Ok"
    /\ emitted' = <<>>
    /\ UNCHANGED <<runtimes, failure_counts, lastSet>>

start ==
    IF is_running
    THEN /\ ret' = "Err"
         /\ emitted' = <<>>
         /\ UNCHANGED <<is_running, runtimes, failure_counts, tasks, lastSet>>
    ELSE /\ NumTasks(tasks) < MaxLoops
         /\ is_running' = TRUE
         /\ tasks' = Spawned(tasks, NewTask)
         /\ ret' = "Ok"
         /\ emitted' = <<>>
         /\ UNCHANGED <<runtimes, failure_counts, lastSet>>

(***************************************************************************)
(* PollingService::stop.  Every task spawned so far is now a task whose    *)
(* start() has been followed by a stop().                                  *)
(***************************************************************************)
stop ==
    /\ is_running' = FALSE
    /\ tasks' = [p \in DOMAIN tasks |-> [r \in DOMAIN tasks[p] |->
                    [b \in BOOLEAN |->
                        IF b THEN tasks[p][r][TRUE] + tasks[p][r][FALSE] ELSE 0]]]
    /\ emitted' = <<>>
    /\ ret' = None
    /\ UNCHANGED <<runtimes, failure_counts, lastSet>>

(***************************************************************************)
(* The tick loop.                                                          *)
(***************************************************************************)
\* Where the loop goes when `rest` is what the for loop has left to visit.
AfterRuntime(rest) == IF rest = <<>> THEN "tick" ELSE "backoff"

\* tick.tick().await, the should_stop check under the is_running lock and,
\* when the loop goes on, the snapshot under the read lock.  The two locks are
\* taken back to back; set_runtimes commutes with the check and start/stop
\* with the snapshot, so taking them in one step loses no behaviour.
LoopTick(t) ==
    /\ t.pc = "tick"
    /\ At(tasks, t) > 0
    /\ IF ~is_running
       THEN tasks' = Exited(tasks, t)
       ELSE tasks' = Move(tasks, t, [pc |-> AfterRuntime(runtimes),
                                     current_runtimes |-> runtimes,
                                     stopped |-> t.stopped])
    /\ emitted' = <<>>
    /\ ret' = None
    /\ UNCHANGED <<is_running, runtimes, failure_counts, lastSet>>

backoff_intervals(count) == Pow2(Min(count, 5))

\* should_skip that skips a runtime for as long as it has failures counted.
should_skip_while_failing(fc, runtime_id, draw) ==
    IF runtime_id \in DOMAIN fc
    THEN fc[runtime_id] > 0
    ELSE FALSE

\* should_skip with the test on the draw turned around.
should_skip_inverted(fc, runtime_id, draw) ==
    IF runtime_id \in DOMAIN fc
    THEN IF fc[runtime_id] > 0
         THEN draw % backoff_intervals(fc[runtime_id]) = 0
         ELSE FALSE
    ELSE FALSE

\* The should_skip block: whether runtime_id is skipped in this tick, given the
\* failure map fc and the random draw.
should_skip(fc, runtime_id, draw) ==
    IF runtime_id \in DOMAIN fc
    THEN IF fc[runtime_id] > 0
         THEN draw % backoff_intervals(fc[runtime_id]) # 0
         ELSE FALSE
    ELSE FALSE

\* The task is done with the runtime at the head of its iterator.
Advance(t) ==
    LET rest == Tail(t.current_runtimes)
    IN  [pc |-> AfterRuntime(rest), current_runtimes |-> rest, stopped |-> t.stopped]

\* Top of the for body: the backoff decision under the read lock, on `draw`,
\* the value of rand::thread_rng().gen::<u32>().
Backoff(t, draw) ==
    /\ t.pc = "backoff"
    /\ At(tasks, t) > 0
    /\ IF should_skip(failure_counts, Head(t.current_runtimes), draw)
       THEN tasks' = Move(tasks, t, Advance(t))
       ELSE tasks' = Move(tasks, t, [t EXCEPT !.pc = "probe"])
    /\ emitted' = <<>>
    /\ ret' = None
    /\ UNCHANGED <<is_running, runtimes, failure_counts, lastSet>>

LoopBackoff(t) == \E draw \in Draws : Backoff(t, draw)

\* The update without the cap on the counter.
UpdateFailures_uncapped(fc, runtime_id, new_status) ==
    IF new_status = "Error" \/ new_status = "Unknown"
    THEN LET count == IF runtime_id \in DOMAIN fc THEN fc[runtime_id] ELSE 0
         IN  [k \in DOMAIN fc \cup {runtime_id} |->
                 IF k = runtime_id THEN count + 1 ELSE fc[k]]
    ELSE [k \in DOMAIN fc \ {runtime_id} |-> fc[k]]

\* The update that steps the counter down on success instead of removing it.
UpdateFailures_decrement(fc, runtime_id, new_status) ==
    IF new_status = "Error" \/ new_status = "Unknown"
    THEN LET count == IF runtime_id \in DOMAIN fc THEN fc[runtime_id] ELSE 0
         IN  [k \in DOMAIN fc \cup {runtime_id} |->
                 IF k = runtime_id THEN Min(count + 1, MaxFailures) ELSE fc[k]]
    ELSE IF runtime_id \in DOMAIN fc /\ fc[runtime_id] > 1
         THEN [fc EXCEPT ![runtime_id] = @ - 1]
         ELSE [k \in DOMAIN fc \ {runtime_id} |-> fc[k]]

\* The failure-count update under the write lock.
UpdateFailures(fc, runtime_id, new_status) ==
    IF new_status = "Error" \/ new_status = "Unknown"
    THEN LET count == IF runtime_id \in DOMAIN fc THEN fc[runtime_id] ELSE 0
         IN  [k \in DOMAIN fc \cup {runtime_id} |->
                 IF k = runtime_id THEN Min(count + 1, MaxFailures) ELSE fc[k]]
    ELSE [k \in DOMAIN fc \ {runtime_id} |-> fc[k]]

\* An event that reports a failing status in its error field.
StatusUpdate_with_error(runtime_id, new_status) ==
    [runtime_id |-> runtime_id, status |-> new_status,
     error |-> IF new_status = "Error" THEN "Error" ELSE None]

StatusUpdate(runtime_id, new_status) ==
    [runtime_id |-> runtime_id, status |-> new_status, error |-> None]

\* A probe whose failure breaks out of the for loop over the snapshot.
Probe_breaking(t, new_status) ==
    /\ t.pc = "probe"
    /\ At(tasks, t) > 0
    /\ LET runtime_id == Head(t.current_runtimes)
       IN  /\ emitted' = <<StatusUpdate(runtime_id, new_status)>>
           /\ failure_counts' = UpdateFailures(failure_counts, runtime_id, new_status)
    /\ tasks' = IF new_status = "Error" \/ new_status = "Unknown"
                THEN Move(tasks, t, [pc |-> "tick", current_runtimes |-> <<>>,
                                     stopped |-> t.stopped])
                ELSE Move(tasks, t, Advance(t))
    /\ ret' = None
    /\ UNCHANGED <<is_running, runtimes, lastSet>>

\* check_status(&runtime).await returns new_status; then, with no await in
\* between but the write lock, the counter is updated and the event emitted.
\* A failed emit is only logged.
Probe(t, new_status) ==
    /\ t.pc = "probe"
    /\ At(tasks, t) > 0
    /\ LET runtime_id == Head(t.current_runtimes)
       IN  /\ emitted' = <<StatusUpdate(runtime_id, new_status)>>
           /\ failure_counts' = UpdateFailures(failure_counts, runtime_id, new_status)
    /\ tasks' = Move(tasks, t, Advance(t))
    /\ ret' = None
    /\ UNCHANGED <<is_running, runtimes, lastSet>>

LoopProbe(t) == \E new_status \in RuntimeStatus : Probe(t, new_status)

(***************************************************************************)
(* DetectionCache (runtime/cache.rs).  Every method takes the one mutex    *)
(* for its whole access to the map.  Nothing can panic while the mutex is  *)
(* held, so it is never poisoned and lock() always succeeds.               *)
(***************************************************************************)
MaxTime == 3         \* the clock runs from 0 to MaxTime
MaxTTL == 2          \* the cache is constructed with a ttl of 0 .. MaxTTL
MaxInFlight == 1     \* set() calls that may be between clock reading and insert

RuntimeType == {"Docker", "Podman"}

\* Detection results a caller may store, told apart by what they contain.
DetectionResults == {"one runtime", "no runtime"}

\* DetectionCache::new(ttl_seconds)
CacheInit ==
    /\ entries = <<>>
    /\ ttl \in 0 .. MaxTTL
    /\ now = 0
    /\ in_flight = EmptyBag
    /\ setAt = <<>>
    /\ cacheLast = [op |-> "new"]

\* Duration::from_secs, as a number of milliseconds.
MillisPerSecond == 1000

from_secs(secs) == secs * MillisPerSecond

\* DetectionCache::new(ttl_seconds) with the clock counted in milliseconds.
DetectionCache_new(ttl_seconds) ==
    /\ entries = <<>>
    /\ ttl = from_secs(ttl_seconds)
    /\ now = 0
    /\ in_flight = EmptyBag
    /\ setAt = <<>>
    /\ cacheLast = [op |-> "new"]

\* The state of a cache no operation has been applied to.
CacheIdle ==
    /\ entries = <<>>
    /\ ttl = 0
    /\ now = 0
    /\ in_flight = EmptyBag
    /\ setAt = <<>>
    /\ cacheLast = [op |-> "new"]

\* get that still returns the entry at its expiry instant.
get_inclusive(runtime_type) ==
    /\ cacheLast' =
         [op |-> "get", kind |-> runtime_type,
          ret |-> IF runtime_type \in DOMAIN entries
                  THEN IF now <= entries[runtime_type].expires_at
                       THEN entries[runtime_type].result
                       ELSE None
                  ELSE None]
    /\ UNCHANGED <<entries, ttl, now, in_flight, setAt>>

\* DetectionCache::get
get(runtime_type) ==
    /\ cacheLast' =
         [op |-> "get", kind |-> runtime_type,
          ret |-> IF runtime_type \in DOMAIN entries
                  THEN IF now < entries[runtime_type].expires_at
                       THEN entries[runtime_type].result
                       ELSE None
                  ELSE None]
    /\ UNCHANGED <<entries, ttl, now, in_flight, setAt>>

\* set that forgets to add the ttl.
set_begin_no_ttl(runtime_type, result) ==
    /\ BagCardinality(in_flight) < MaxInFlight
    /\ in_flight' = in_flight (+) SetToBag(
          {[kind |-> runtime_type, result |-> result,
            expires_at |-> now, at |-> now]})
    /\ cacheLast' = [op |-> "set_begin"]
    /\ UNCHANGED <<entries, ttl, now, setAt>>

\* DetectionCache::set up to the lock: expires_at = Instant::now() + self.ttl
set_begin(runtime_type, result) ==
    /\ BagCardinality(in_flight) < MaxInFlight
    /\ in_flight' = in_flight (+) SetToBag(
          {[kind |-> runtime_type, result |-> result,
            expires_at |-> now + ttl, at |-> now]})
    /\ cacheLast' = [op |-> "set_begin"]
    /\ UNCHANGED <<entries, ttl, now, setAt>>

\* DetectionCache::set under the lock: entries.insert(runtime_type, entry)
set_insert(call) ==
    /\ BagIn(call, in_flight)
    /\ in_flight' = in_flight (-) SetToBag({call})
    /\ entries' = [k \in DOMAIN entries \cup {call.kind} |->
                      IF k = call.kind
                      THEN [result |-> call.result, expires_at |-> call.expires_at]
                      ELSE entries[k]]
    /\ setAt' = [k \in DOMAIN setAt \cup {call.kind} |->
                      IF k = call.kind THEN call.at ELSE setAt[k]]
    /\ cacheLast' = [op |-> "set", kind |-> call.kind, result |-> call.result,
                     at |-> call.at]
    /\ UNCHANGED <<ttl, now>>

\* DetectionCache::clear
clear(runtime_type) ==
    /\ entries' = [k \in DOMAIN entries \ {runtime_type} |-> entries[k]]
    /\ setAt' = [k \in DOMAIN setAt \ {runtime_type} |-> setAt[k]]
    /\ cacheLast' = [op |-> "clear", kind |-> runtime_type]
    /\ UNCHANGED <<ttl, now, in_flight>>

\* The kinds whose stored entry get would still return, and the others stored.
Fresh == { k \in DOMAIN entries : now < entries[k].expires_at }

Expired == DOMAIN entries \ Fresh

\* clear_all that only drops the entries that have expired.
clear_all_expired_only ==
    /\ entries' = [k \in Fresh |-> entries[k]]
    /\ setAt' = [k \in Fresh |-> setAt[k]]
    /\ cacheLast' = [op |-> "clear_all", fresh |-> Fresh, expired |-> Expired]
    /\ UNCHANGED <<ttl, now, in_flight>>

\* DetectionCache::clear_all; cacheLast notes what the call found in the map.
clear_all ==
    /\ entries' = <<>>
    /\ setAt' = <<>>
    /\ cacheLast' = [op |-> "clear_all", fresh |-> Fresh, expired |-> Expired]
    /\ UNCHANGED <<ttl, now, in_flight>>

\* Time passes: Instant::now() is monotonic.
ClockTick ==
    /\ now < MaxTime
    /\ now' = now + 1
    /\ cacheLast' = [op |-> "clock"]
    /\ UNCHANGED <<entries, ttl, in_flight, setAt>>

(***************************************************************************)
(* RuntimeDetector (runtime/detector.rs) over its DetectionCache.  A call  *)
(* of detect_docker / detect_podman is at `pc`: "pipeline" (awaiting the   *)
(* detection pipeline), "set" (the pipeline has returned `result`),        *)
(* "insert" (inside cache.set, between the clock reading and the insert).  *)
(* join tells that the call is one of the two futures of the detect_all.   *)
(* cleared tells that clear_all_caches() has returned since the pipeline   *)
(* of the call returned its result.  Calls in the same state are           *)
(* interchangeable, so `calls` is a bag.  all_call is the detect_all call: *)
(* at "join" it holds what each of its two futures has returned so far,    *)
(* at "done" also the list it returned.                                    *)
(***************************************************************************)
MaxCalls == 1        \* detect_docker / detect_podman calls of their own at once

\* What a detection pipeline can return: one runtime, nothing, or one error.
PipelineResults == DetectionResults \cup {"error"}

\* DetectionResult.runtimes of what the pipeline of `kind` returned.
ResultRuntimes(kind, result) ==
    IF result = "one runtime"
    THEN IF kind = "Docker" THEN <<Docker>> ELSE <<Podman>>
    ELSE <<>>

Pending == "pending"

\* The value of `returned` after a step in which no call returned.
NoReturn == [kind |-> None]

\* The calls in progress, and calls with c replaced by d.
Calls == BagToSet(calls)

Replaced(c, d) == (calls (-) SetToBag({c})) (+) SetToBag({d})

\* RuntimeDetector::new
DetectorInit ==
    /\ calls = EmptyBag
    /\ all_call = [pc |-> "idle"]
    /\ origin = <<>>
    /\ returned = NoReturn

\* detect_all: tokio::join!(self.detect_docker(), self.detect_podman())
detect_all_begin ==
    /\ all_call.pc \in {"idle", "done"}
    /\ all_call' = [pc |-> "join", Docker |-> Pending, Podman |-> Pending]
    /\ returned' = NoReturn
    /\ UNCHANGED <<calls, origin, cacheVars>>

\* Whether a call of detect_<kind> may begin: a future of detect_all begins
\* once, when the join first polls it; the calls made on their own are
\* at most MaxCalls at a time.
MayBegin(kind, join) ==
    IF join
    THEN /\ all_call.pc = "join"
         /\ all_call[kind] = Pending
         /\ \A c \in Calls : ~(c.join /\ c.kind = kind)
    ELSE BagCardinality(calls) < MaxCalls

\* A call hands `result` to its caller: to the join of detect_all, or out.
Deliver(kind, join, result) ==
    IF join
    THEN all_call' = [all_call EXCEPT ![kind] = result]
    ELSE all_call' = all_call

\* detect_docker / detect_podman that never looks into the cache.
detect_begin_uncached(kind, join) ==
    /\ MayBegin(kind, join)
    /\ get(kind)
    /\ calls' = calls (+) SetToBag({[pc |-> "pipeline", kind |-> kind, join |-> join]})
    /\ returned' = NoReturn
    /\ UNCHANGED <<all_call, origin>>

\* detect_docker / detect_podman up to the first await: cache.get, then either
\* return the cached result or start the pipeline.
detect_begin(kind, join) ==
    /\ MayBegin(kind, join)
    /\ get(kind)
    /\ IF cacheLast'.ret # None
       THEN /\ calls' = calls
            /\ Deliver(kind, join, cacheLast'.ret)
            /\ returned' = [kind |-> kind, result |-> cacheLast'.ret]
       ELSE /\ calls' = calls (+) SetToBag({[pc |-> "pipeline", kind |-> kind,
                                             join |-> join]})
            /\ all_call' = all_call
            /\ returned' = NoReturn
    /\ UNCHANGED origin

\* detect_docker(self.detection_timeout).await returns `result`.
pipeline_done(c, result) ==
    /\ BagIn(c, calls)
    /\ c.pc = "pipeline"
    /\ calls' = Replaced(c, [pc |-> "set", kind |-> c.kind, join |-> c.join,
                             result |-> result, cleared |-> FALSE])
    /\ returned' = NoReturn
    /\ UNCHANGED <<all_call, origin, cacheVars>>

\* self.cache.set(kind, result.clone()), up to the cache's lock.
detect_set(c) ==
    /\ BagIn(c, calls)
    /\ c.pc = "set"
    /\ set_begin(c.kind, c.result)
    /\ calls' = Replaced(c, [c EXCEPT !.pc = "insert"] @@ [at |-> now])
    /\ returned' = NoReturn
    /\ UNCHANGED <<all_call, origin>>

\* A return that hands out the result another call has stored in the meantime.
detect_return_first_wins(c) ==
    /\ BagIn(c, calls)
    /\ c.pc = "insert"
    /\ set_insert([kind |-> c.kind, result |-> c.result,
                   expires_at |-> c.at + ttl, at |-> c.at])
    /\ LET result == IF c.kind \in DOMAIN entries THEN entries[c.kind].result
                     ELSE c.result
       IN  /\ Deliver(c.kind, c.join, result)
           /\ returned' = [kind |-> c.kind, result |-> result]
    /\ origin' = [k \in DOMAIN origin \cup {c.kind} |->
                     IF k = c.kind THEN c.cleared ELSE origin[k]]
    /\ calls' = calls (-) SetToBag({c})

\* The insert of cache.set, and the return of the result.
detect_return(c) ==
    /\ BagIn(c, calls)
    /\ c.pc = "insert"
    /\ set_insert([kind |-> c.kind, result |-> c.result,
                   expires_at |-> c.at + ttl, at |-> c.at])
    /\ origin' = [k \in DOMAIN origin \cup {c.kind} |->
                     IF k = c.kind THEN c.cleared ELSE origin[k]]
    /\ Deliver(c.kind, c.join, c.result)
    /\ returned' = [kind |-> c.kind, result |-> c.result]
    /\ calls' = calls (-) SetToBag({c})

\* detect_all that gives up the whole list when one kind reported an error.
detect_all_return_all_or_nothing ==
    /\ all_call.pc = "join"
    /\ all_call.Docker # Pending
    /\ all_call.Podman # Pending
    /\ all_call' = [pc |-> "done",
                    Docker |-> all_call.Docker,
                    Podman |-> all_call.Podman,
                    ret |-> IF "error" \in {all_call.Docker, all_call.Podman}
                            THEN <<>>
                            ELSE ResultRuntimes("Docker", all_call.Docker)
                                 \o ResultRuntimes("Podman", all_call.Podman)]
    /\ returned' = NoReturn
    /\ UNCHANGED <<calls, origin, cacheVars>>

\* detect_all once both futures are ready: the two runtimes lists, extended.
detect_all_return ==
    /\ all_call.pc = "join"
    /\ all_call.Docker # Pending
    /\ all_call.Podman # Pending
    /\ all_call' = [pc |-> "done",
                    Docker |-> all_call.Docker,
                    Podman |-> all_call.Podman,
                    ret |-> ResultRuntimes("Docker", all_call.Docker)
                            \o ResultRuntimes("Podman", all_call.Podman)]
    /\ returned' = NoReturn
    /\ UNCHANGED <<calls, origin, cacheVars>>

\* The calls after a clear_all_caches(): those that hold a result are marked.
AfterClear(c) == IF c.pc \in {"set", "insert"} THEN [c EXCEPT !.cleared = TRUE] ELSE c

\* RuntimeDetector::clear_all_caches
clear_all_caches ==
    /\ clear_all
    /\ origin' = <<>>
    /\ calls' = [d \in { AfterClear(c) : c \in Calls } |->
                    IF d.pc \in {"set", "insert"}
                    THEN (IF BagIn(d, calls) THEN CopiesIn(d, calls) ELSE 0)
                         + (IF BagIn([d EXCEPT !.cleared = FALSE], calls)
                            THEN CopiesIn([d EXCEPT !.cleared = FALSE], calls) ELSE 0)
                    ELSE CopiesIn(d, calls)]
    /\ returned' = NoReturn
    /\ UNCHANGED all_call

\* Time passes while the detector is in use.
DetectorClockTick ==
    /\ ClockTick
    /\ returned' = NoReturn
    /\ UNCHANGED <<calls, all_call, origin>>

(***************************************************************************)
(* The detection pipelines (runtime/docker.rs, runtime/podman.rs): one run *)
(* of detect_docker or detect_podman, a stage at a time.  A stage that     *)
(* touches the system takes some time and gets its answer from the system. *)
(***************************************************************************)
MaxElapsed == 2

Platforms == {"windows", "macos", "linux"}

\* timeout_ms values a pipeline is started with.
Timeouts == 0 .. MaxElapsed - 1

\* Where find_*_executable and detect_wsl_docker can find the executable.
OnSearchPath == "on the search path"
InFallbackDir == "in a platform directory"
ExeEntry == "the .exe entry of the platform list"
WslDockerExe == "docker.exe on the Windows side of WSL"

\* The versions a version output parses to.
Versions == { <<20, 10, 0>>, <<19, 3, 8>>, <<3, 0, 0>>, <<2, 9, 9>> }

\* What the version query gives: no output when the command cannot be run or
\* exits non-zero, else the version its output parses to, if any.
NoVersion == <<>>

VersionOutputs ==
    {[exit |-> e, version |-> NoVersion] : e \in {"failed", "ok"}}
        \cup {[exit |-> "ok", version |-> v] : v \in Versions}

PipelineIdle == pipe = [pc |-> "idle"]

\* The platform list ends with the path of the .exe itself on Windows only.
get_platform_paths(platform) ==
    IF platform = "windows" THEN <<InFallbackDir, ExeEntry>>
    ELSE <<InFallbackDir, InFallbackDir, InFallbackDir>>

\* find_docker_executable / find_podman_executable: the search path first,
\* then the platform list.  An entry is returned when
\* (is_file && name == "docker") || name == "docker.exe": the .exe entry is
\* returned whether or not a file is there.  A directory entry is returned
\* when the executable is a file inside it.
find_executable(platform, on_path, in_dir) ==
    IF on_path THEN OnSearchPath
    ELSE LET paths == get_platform_paths(platform)
             hit(i) == \/ paths[i] = ExeEntry
                       \/ paths[i] = InFallbackDir /\ in_dir
             hits == { i \in 1 .. Len(paths) : hit(i) }
         IN  IF hits = {} THEN None
             ELSE paths[CHOOSE i \in hits : \A j \in hits : i <= j]

\* detect_wsl_docker: docker.exe of a WSL host, on Linux only.
detect_wsl_docker(platform, wsl_exe) ==
    IF platform = "linux" /\ wsl_exe THEN WslDockerExe ELSE None

\* Is there a file at the located path.
is_file(path, in_dir) == path # ExeEntry \/ in_dir

\* verify_executable: an execute bit in the metadata on Unix, path.is_file()
\* on Windows.
verify_executable(platform, path, in_dir, exec_bit) ==
    IF platform = "windows" THEN is_file(path, in_dir)
    ELSE is_file(path, in_dir) /\ exec_bit

\* A comparison of each component with its own minimum.
validate_docker_version_componentwise(v) == v[1] >= 20 /\ v[2] >= 10

validate_docker_version(v) == v[1] > 20 \/ (v[1] = 20 /\ v[2] >= 10)

validate_podman_version(v) == v[1] >= 3

validate_version(kind, v) ==
    IF kind = "Docker" THEN validate_docker_version(v)
    ELSE validate_podman_version(v)

\* The stage just finished, with start.elapsed() at its end.
Ran(p, stage, dt) ==
    [p EXCEPT !.elapsed = p.elapsed + dt,
              !.stages = Append(p.stages, [stage |-> stage, at |-> p.elapsed + dt])]

DetectionError(p, message) ==
    [p EXCEPT !.pc = "done", !.errors = Append(p.errors, message)]

\* detect_docker(timeout_ms) / detect_podman(timeout_ms) is called.
detect_start(kind, platform, timeout_ms) ==
    /\ pipe.pc \in {"idle", "done"}
    /\ pipe' = [pc |-> "locate", kind |-> kind, platform |-> platform,
                timeout |-> timeout_ms, elapsed |-> 0, installed |-> FALSE,
                in_dir |-> FALSE, path |-> None, stages |-> <<>>,
                version |-> NoVersion, status |-> None, mode |-> None,
                runtimes |-> <<>>, errors |-> <<>>]

\* spawn_blocking(find_*_executable).await, and for Docker the WSL fallback,
\* which is skipped when the budget is already spent.
locate(on_path, in_dir, wsl_exe, dt, dt_wsl) ==
    /\ pipe.pc = "locate"
    /\ pipe.elapsed + dt + dt_wsl <= MaxElapsed
    /\ LET found == find_executable(pipe.platform, on_path, in_dir)
           try_wsl == /\ pipe.kind = "Docker"
                      /\ found = None
                      /\ ~(pipe.elapsed + dt > pipe.timeout)
           path == IF try_wsl THEN detect_wsl_docker(pipe.platform, wsl_exe)
                   ELSE found
           took == IF try_wsl THEN dt + dt_wsl ELSE dt
       IN  /\ ~try_wsl => dt_wsl = 0
           /\ pipe' = [Ran(pipe, "locate", took) EXCEPT
                         !.pc = "located", !.path = path, !.in_dir = in_dir,
                         !.installed = on_path \/ in_dir \/ path = WslDockerExe]

\* if let Some(path): nothing located ends the run; otherwise the one
\* comparison of start.elapsed() with the timeout.
timeout_check ==
    /\ pipe.pc = "located"
    /\ pipe' = IF pipe.path = None THEN [pipe EXCEPT !.pc = "done"]
               ELSE IF pipe.elapsed > pipe.timeout
                    THEN DetectionError(pipe, "Detection timeout exceeded")
               ELSE [pipe EXCEPT !.pc = "verify"]

verify(exec_bit, dt) ==
    /\ pipe.pc = "verify"
    /\ pipe.elapsed + dt <= MaxElapsed
    /\ LET p == Ran(pipe, "verify", dt)
       IN  pipe' = IF verify_executable(pipe.platform, pipe.path, pipe.in_dir, exec_bit)
                   THEN [p EXCEPT !.pc = "version"]
                   ELSE DetectionError(p, "Executable lacks proper permissions")

\* A version stage that reports an unparseable version and goes on with 0.0.0.
get_version_going_on(output, dt) ==
    /\ pipe.pc = "version"
    /\ pipe.elapsed + dt <= MaxElapsed
    /\ LET p == Ran(pipe, "version query", dt)
           next == IF pipe.kind = "Podman" THEN "mode" ELSE "probe"
       IN  pipe' = IF output.exit = "failed"
                   THEN DetectionError(p, "Failed to get version")
                   ELSE IF output.version = NoVersion
                   THEN [DetectionError(p, "Failed to parse version") EXCEPT
                            !.version = <<0, 0, 0>>, !.pc = next]
                   ELSE [p EXCEPT !.version = output.version, !.pc = next]

\* get_*_version and parse_version of its output.
get_version(output, dt) ==
    /\ pipe.pc = "version"
    /\ pipe.elapsed + dt <= MaxElapsed
    /\ LET p == Ran(pipe, "version query", dt)
       IN  pipe' = IF output.exit = "failed"
                   THEN DetectionError(p, "Failed to get version")
                   ELSE IF output.version = NoVersion
                   THEN DetectionError(p, "Failed to parse version")
                   ELSE [p EXCEPT !.version = output.version,
                                  !.pc = IF pipe.kind = "Podman" THEN "mode"
                                         ELSE "probe"]

\* detect_rootless_mode (Podman only).
detect_rootless_mode(mode, dt) ==
    /\ pipe.pc = "mode"
    /\ pipe.elapsed + dt <= MaxElapsed
    /\ pipe' = [Ran(pipe, "mode query", dt) EXCEPT !.mode = mode, !.pc = "probe"]

\* check_docker_running / check_podman_running.
check_running(running, dt) ==
    /\ pipe.pc = "probe"
    /\ pipe.elapsed + dt <= MaxElapsed
    /\ pipe' = [Ran(pipe, "status probe", dt) EXCEPT
                  !.status = IF running THEN "Running" ELSE "Stopped",
                  !.pc = "validate"]

\* validate_*_version, then the Runtime is pushed and the result returned.
validate_and_push ==
    /\ pipe.pc = "validate"
    /\ LET p == Ran(pipe, "version validation", 0)
           runtime == [id |-> <<pipe.kind, pipe.path>>,
                       runtime_type |-> pipe.kind,
                       path |-> pipe.path,
                       version |-> pipe.version,
                       status |-> pipe.status,
                       mode |-> pipe.mode,
                       version_warning |-> ~validate_version(pipe.kind, pipe.version)]
       IN  pipe' = [p EXCEPT !.pc = "done", !.runtimes = Append(p.runtimes, runtime)]

(***************************************************************************)
(* The status probe (runtime/status.rs): one check_status call, which      *)
(* runs `<path> info` on a blocking thread under a 3-second timer.         *)
(***************************************************************************)
STATUS_CHECK_TIMEOUT == 3

\* Paths a runtime can carry: an installed executable and one that is gone.
ProbePaths == {"/usr/bin/docker", "/nonexistent/docker"}

\* stderr of the child, word by word.
Stderrs ==
    { <<>>,
      <<"Cannot", "connect", "to", "the", "daemon">>,
      <<"Got", "permission", "denied", "while", "connecting">>,
      <<"permission", "was", "not", "denied">> }

\* str::contains
Contains(text, pattern) ==
    \E i \in 0 .. Len(text) - Len(pattern) :
        SubSeq(text, i + 1, i + Len(pattern)) = pattern

\* How the blocking task can end: Command::output returns the exit of the
\* child, or an io::Error when it cannot be spawned; or the task panics.
StillRunning == [end |-> "running"]

ChildEnds(path) ==
    IF path = "/nonexistent/docker" THEN {[end |-> "spawn failed"]}
    ELSE {[end |-> "exit", code |-> c, stderr |-> e] : c \in {0, 1}, e \in Stderrs}
             \cup {[end |-> "spawn failed"], [end |-> "join error"]}

StatusIdle == check = [pc |-> "idle"]

\* check_status(runtime) is called: the timer starts, the child is spawned.
check_status(kind, path) ==
    /\ check.pc \in {"idle", "done"}
    /\ check' = [pc |-> "waiting", kind |-> kind, path |-> path, elapsed |-> 0,
                 child |-> StillRunning, status |-> None]

\* The blocking task ends while check_status waits for it.
child_ends(outcome) ==
    /\ check.pc = "waiting"
    /\ check.child = StillRunning
    /\ outcome \in ChildEnds(check.path)
    /\ check' = [check EXCEPT !.child = outcome]

\* A second passes on the timer of tokio::time::timeout.
timer_tick ==
    /\ check.pc = "waiting"
    /\ check.elapsed < STATUS_CHECK_TIMEOUT
    /\ check' = [check EXCEPT !.elapsed = @ + 1]

\* A mapping that reports a failure to spawn as an error.
status_of_spawn_error(outcome) ==
    IF outcome.end = "exit"
    THEN IF outcome.code = 0 THEN "Running"
         ELSE IF Contains(outcome.stderr, <<"permission", "denied">>) THEN "Error"
         ELSE "Stopped"
    ELSE "Error"

\* match result: the arms for a task that ended within the timeout.
status_of(outcome) ==
    IF outcome.end = "exit"
    THEN IF outcome.code = 0 THEN "Running"
         ELSE IF Contains(outcome.stderr, <<"permission", "denied">>) THEN "Error"
         ELSE "Stopped"
    ELSE "Stopped"

\* A check_status that has no timer and returns only when the child ends.
check_return_wait_for_child ==
    /\ check.pc = "waiting"
    /\ check.child # StillRunning
    /\ check' = [check EXCEPT !.pc = "done", !.status = status_of(check.child)]

\* timeout(..).await returns: with the task's output if the task has ended,
\* with Elapsed once the timer has run out; check_status returns the status.
check_return ==
    /\ check.pc = "waiting"
    /\ check.child # StillRunning \/ check.elapsed = STATUS_CHECK_TIMEOUT
    /\ check' = [check EXCEPT
                   !.pc = "done",
                   !.status = IF check.child # StillRunning
                              THEN status_of(check.child)
                              ELSE "Unknown"]

(***************************************************************************)
(* The version parser (runtime/version.rs).  A text is a sequence of       *)
(* characters; a number is the sequence of its decimal digits, so that a   *)
(* u32 keeps its full range.                                               *)
(***************************************************************************)
MaxTokens == 5

AsciiDigits == <<"0", "1", "2", "3", "4", "5", "6", "7", "8", "9">>

\* ARABIC-INDIC DIGIT THREE: a decimal digit to the regex, not to u32::from_str.
OtherDigit == "U+0663"

\* u32::MAX, 4294967295.
U32_MAX == <<"4", "2", "9", "4", "9", "6", "7", "2", "9", "5">>

\* The pieces the version outputs of the model are made of.
Tokens ==
    { <<"1", ".">>, <<"0", ".">>, <<"1">>, <<"0">>, U32_MAX,
      <<".">>, <<"v">>, <<OtherDigit>> }

RECURSIVE Texts(_)
Texts(n) ==
    IF n = 0 THEN {<<>>}
    ELSE LET shorter == Texts(n - 1)
         IN  shorter \cup { t \o k : t \in shorter, k \in Tokens }

\* The version outputs of up to n pieces.
VersionInputs(n) == Texts(n)

IsAsciiDigit(c) == \E n \in DOMAIN AsciiDigits : AsciiDigits[n] = c

\* \d of the regex crate, which is Unicode-aware.
IsDigit(c) == IsAsciiDigit(c) \/ c = OtherDigit

\* The end of the longest run of \d that starts at i.
RunEnd(text, i) ==
    CHOOSE j \in i .. Len(text) :
        /\ \A k \in i .. j : IsDigit(text[k])
        /\ j = Len(text) \/ ~IsDigit(text[j + 1])

\* Is "." followed by \d at position i.
DotDigit(text, i) ==
    i + 1 <= Len(text) /\ text[i] = "." /\ IsDigit(text[i + 1])

\* (\d+)\.(\d+)\.(\d+) matched at position i: the three groups, or <<>>.
MatchAt(text, i) ==
    IF ~IsDigit(text[i]) THEN <<>>
    ELSE LET a == RunEnd(text, i)
         IN  IF ~DotDigit(text, a + 1) THEN <<>>
             ELSE LET b == RunEnd(text, a + 2)
                  IN  IF ~DotDigit(text, b + 1) THEN <<>>
                      ELSE LET c == RunEnd(text, b + 2)
                           IN  << SubSeq(text, i, a),
                                  SubSeq(text, a + 2, b),
                                  SubSeq(text, b + 2, c) >>

\* Regex::captures: the leftmost match.
captures(text) ==
    LET starts == { i \in 1 .. Len(text) : MatchAt(text, i) # <<>> }
    IN  IF starts = {} THEN <<>>
        ELSE MatchAt(text, CHOOSE i \in starts : \A j \in starts : i <= j)

DigitValue(c) == CHOOSE n \in DOMAIN AsciiDigits : AsciiDigits[n] = c

\* Numbers of the same number of digits, compared digit by digit.
NoGreater(x, y) ==
    \/ x = y
    \/ \E k \in 1 .. Len(x) :
          /\ \A h \in 1 .. k - 1 : x[h] = y[h]
          /\ DigitValue(x[k]) < DigitValue(y[k])

RECURSIVE StripZeros(_)
StripZeros(digits) ==
    IF Len(digits) > 1 /\ digits[1] = "0" THEN StripZeros(Tail(digits))
    ELSE digits

\* str::parse::<u32>: ASCII digits only, and a value up to u32::MAX.
parse_u32(digits) ==
    IF \E k \in 1 .. Len(digits) : ~IsAsciiDigit(digits[k]) THEN [ok |-> FALSE]
    ELSE LET n == StripZeros(digits)
         IN  IF \/ Len(n) > Len(U32_MAX)
                \/ Len(n) = Len(U32_MAX) /\ ~NoGreater(n, U32_MAX)
             THEN [ok |-> FALSE]
             ELSE [ok |-> TRUE, value |-> n]

parse_version(text) ==
    LET caps == captures(text)
    IN  IF caps = <<>> THEN [ok |-> FALSE]
        ELSE LET major == parse_u32(caps[1])
                 minor == parse_u32(caps[2])
                 patch == parse_u32(caps[3])
             IN  IF ~major.ok \/ ~minor.ok \/ ~patch.ok THEN [ok |-> FALSE]
                 ELSE [ok |-> TRUE, major |-> major.value, minor |-> minor.value,
                       patch |-> patch.value,
                       full |-> major.value \o <<".">> \o minor.value
                                   \o <<".">> \o patch.value]

VersionIdle == ver = [pc |-> "idle"]

\* parse_version(version_str) is called and returns.
parse_version_call ==
    /\ ver.pc = "input"
    /\ ver' = [pc |-> "parsed", text |-> ver.text, result |-> parse_version(ver.text)]

\* The version triples the validators are applied to.
MaxMajor == 21
MaxMinor == 11
MaxPatch == 1

VersionTriples == (0 .. MaxMajor) \X (0 .. MaxMinor) \X (0 .. MaxPatch)

\* validate_docker_version(&version) / validate_podman_version(&version) is
\* called and returns.
validate_call(kind) ==
    /\ ver.pc = "triple"
    /\ ver' = [pc |-> "validated", version |-> ver.version, kind |-> kind,
               valid |-> validate_version(kind, ver.version)]

(***************************************************************************)
(* The tick loop with its probe spelled out: the check_status call of the  *)
(* task that is at "probe", from its start to its return, and the child of *)
(* a timed-out call, whose blocking thread runs on after the return.       *)
(***************************************************************************)
\* runtime.runtime_type and runtime.path of the runtime with the given id.
KindOf(runtime_id) == IF runtime_id = Docker THEN "Docker" ELSE "Podman"

PathOf(runtime_id) == IF runtime_id = Docker THEN "/usr/bin/docker" ELSE "/usr/bin/podman"

\* The ways the child of a probe ends that lead to different statuses.
PolledEnds ==
    { [end |-> "exit", code |-> 0, stderr |-> <<>>],
      [end |-> "exit", code |-> 1, stderr |-> <<"Cannot", "connect", "to", "the", "daemon">>],
      [end |-> "exit", code |-> 1, stderr |-> <<"Got", "permission", "denied", "while", "connecting">>] }

\* A step that is none of the poller's: nothing is emitted, nothing returned.
PollerIdle ==
    /\ emitted' = <<>>
    /\ ret' = None
    /\ UNCHANGED <<is_running, runtimes, failure_counts, tasks, lastSet>>

\* The task at "probe" calls check_status(&runtime).
poll_check_begin(t) ==
    /\ t.pc = "probe"
    /\ At(tasks, t) > 0
    /\ check_status(KindOf(Head(t.current_runtimes)), PathOf(Head(t.current_runtimes)))
    /\ PollerIdle

\* check_status returns to the task that called it, which updates the failure
\* count and emits the event.
poll_check_return(t) ==
    /\ t.pc = "probe"
    /\ check_return
    /\ KindOf(Head(t.current_runtimes)) = check.kind
    /\ Probe(t, check'.status)

\* A late result that is counted and reported like a probe of its own.
child_ends_late_counted(outcome) ==
    /\ check.pc = "done"
    /\ check.child = StillRunning
    /\ "late" \notin DOMAIN check
    /\ outcome \in ChildEnds(check.path)
    /\ check' = check @@ [late |-> outcome]
    /\ LET runtime_id == IF check.kind = "Docker" THEN Docker ELSE Podman
       IN  /\ emitted' = <<StatusUpdate(runtime_id, status_of(outcome))>>
           /\ failure_counts' = UpdateFailures(failure_counts, runtime_id, status_of(outcome))
    /\ ret' = None
    /\ UNCHANGED <<is_running, runtimes, tasks, lastSet>>

\* The child of a call that timed out ends: the blocking task finishes and
\* its output is dropped with the JoinHandle nobody holds any more.
child_ends_late(outcome) ==
    /\ check.pc = "done"
    /\ check.child = StillRunning
    /\ "late" \notin DOMAIN check
    /\ outcome \in ChildEnds(check.path)
    /\ check' = check @@ [late |-> outcome]
    /\ PollerIdle

Init == PollInit /\ CacheIdle /\ DetectorInit /\ PipelineIdle /\ StatusIdle /\ VersionIdle

Next ==
    \/ \E list \in RuntimeLists : set_runtimes(list) /\ UNCHANGED nonPollVars
    \/ start /\ UNCHANGED nonPollVars
    \/ stop /\ UNCHANGED nonPollVars
    \/ \E t \in TaskStates : LoopTick(t) /\ UNCHANGED nonPollVars
    \/ \E t \in TaskStates : LoopBackoff(t) /\ UNCHANGED nonPollVars
    \/ \E t \in TaskStates : LoopProbe(t) /\ UNCHANGED nonPollVars

Spec == Init /\ [][Next]_vars

CacheNext ==
    \/ \E k \in RuntimeType : get(k) /\ UNCHANGED nonCacheVars
    \/ \E k \in RuntimeType, r \in DetectionResults : set_begin(k, r) /\ UNCHANGED nonCacheVars
    \/ \E call \in BagToSet(in_flight) : set_insert(call) /\ UNCHANGED nonCacheVars
    \/ \E k \in RuntimeType : clear(k) /\ UNCHANGED nonCacheVars
    \/ clear_all /\ UNCHANGED nonCacheVars
    \/ ClockTick /\ UNCHANGED nonCacheVars

CacheSpecInit == CacheInit /\ PollInit /\ DetectorInit /\ PipelineIdle /\ StatusIdle /\ VersionIdle

CacheSpec == CacheSpecInit /\ [][CacheNext]_vars

DetectorNext ==
    \/ \E k \in RuntimeType : detect_begin(k, FALSE) /\ UNCHANGED nonDetVars
    \/ \E c \in Calls, r \in PipelineResults : pipeline_done(c, r) /\ UNCHANGED nonDetVars
    \/ \E c \in Calls : detect_set(c) /\ UNCHANGED nonDetVars
    \/ \E c \in Calls : detect_return(c) /\ UNCHANGED nonDetVars
    \/ clear_all_caches /\ UNCHANGED nonDetVars
    \/ DetectorClockTick /\ UNCHANGED nonDetVars

\* A detector whose cache keeps a result for MaxTTL ticks of the clock.
DetectorSpecInit == DetectorInit /\ CacheInit /\ ttl = MaxTTL /\ PollInit /\ PipelineIdle /\ StatusIdle /\ VersionIdle

\* detect_docker and detect_podman called on their own.
DetectorSpec == DetectorSpecInit /\ [][DetectorNext]_vars

DetectAllNext ==
    \/ detect_all_begin /\ UNCHANGED nonDetVars
    \/ \E k \in RuntimeType : detect_begin(k, TRUE) /\ UNCHANGED nonDetVars
    \/ \E c \in Calls, r \in PipelineResults : pipeline_done(c, r) /\ UNCHANGED nonDetVars
    \/ \E c \in Calls : detect_set(c) /\ UNCHANGED nonDetVars
    \/ \E c \in Calls : detect_return(c) /\ UNCHANGED nonDetVars
    \/ detect_all_return /\ UNCHANGED nonDetVars
    \/ clear_all_caches /\ UNCHANGED nonDetVars
    \/ DetectorClockTick /\ UNCHANGED nonDetVars

DetectAllSpecInit == DetectorInit /\ CacheInit /\ ttl = MaxTTL /\ PollInit /\ PipelineIdle /\ StatusIdle /\ VersionIdle

\* detect_all called again and again, with the cache cleared at any moment.
DetectAllSpec == DetectAllSpecInit /\ [][DetectAllNext]_vars

DetectOverlapNext ==
    \/ detect_all_begin /\ UNCHANGED nonDetVars
    \/ \E k \in RuntimeType, join \in BOOLEAN : detect_begin(k, join) /\ UNCHANGED nonDetVars
    \/ \E c \in Calls, r \in PipelineResults : pipeline_done(c, r) /\ UNCHANGED nonDetVars
    \/ \E c \in Calls : detect_set(c) /\ UNCHANGED nonDetVars
    \/ \E c \in Calls : detect_return(c) /\ UNCHANGED nonDetVars
    \/ detect_all_return /\ UNCHANGED nonDetVars

DetectOverlapSpecInit ==
    /\ DetectorInit /\ CacheInit /\ ttl = MaxTTL
    /\ PollInit /\ PipelineIdle /\ StatusIdle /\ VersionIdle

\* detect_all in progress while detect_docker and detect_podman are also
\* called on their own, as two commands running at once do.  The cache
\* starts empty and keeps what it is given.
DetectOverlapSpec == DetectOverlapSpecInit /\ [][DetectOverlapNext]_vars

\* RuntimeDetector::new(cache_ttl, detection_timeout): cache_ttl is handed to
\* DetectionCache::new as it is.
RuntimeDetector_new(cache_ttl) == DetectorInit /\ DetectionCache_new(cache_ttl)

DetectorTtlSpecInit ==
    /\ \E cache_ttl \in 1 .. MaxTTL : RuntimeDetector_new(cache_ttl)
    /\ PollInit /\ PipelineIdle /\ StatusIdle /\ VersionIdle

\* The detector as constructed by new, over a clock that counts milliseconds.
DetectorTtlSpec == DetectorTtlSpecInit /\ [][DetectorNext]_vars

(***************************************************************************)
(* The commands of commands/mod.rs that bring the poller and the detector  *)
(* together, with the cache as a detect_all left it: a result of each kind *)
(* stored at time 0.  While both entries are fresh, detect_all is two      *)
(* cache hits and runs no pipeline.                                        *)
(***************************************************************************)
CacheAfterDetectAll ==
    /\ \E d, p \in DetectionResults :
          entries = [k \in RuntimeType |->
                       [result |-> IF k = "Docker" THEN d ELSE p,
                        expires_at |-> MaxTTL]]
    /\ ttl = MaxTTL
    /\ now = 0
    /\ in_flight = EmptyBag
    /\ setAt = [k \in RuntimeType |-> 0]
    /\ cacheLast = [op |-> "new"]

\* What detect_all returns when both kinds are cache hits.
CachedRuntimes ==
    ResultRuntimes("Docker", entries["Docker"].result)
        \o ResultRuntimes("Podman", entries["Podman"].result)

\* start_status_polling up to set_runtimes: DETECTOR.detect_all() on a fresh
\* cache, then POLLING_SERVICE.set_runtimes(runtimes).
start_status_polling_set ==
    /\ Fresh = RuntimeType
    /\ get("Podman")
    /\ set_runtimes(CachedRuntimes)
    /\ UNCHANGED <<detVars, pipeVars, statusVars, versionVars>>

\* A probe step that drops the cached result of Docker.
PollProbe_invalidating(t) ==
    /\ LoopProbe(t)
    /\ clear("Docker")
    /\ UNCHANGED <<detVars, pipeVars, statusVars, versionVars>>

\* The steps of a tick loop, which holds the poller's own Arcs only.
PollProbe(t) == LoopProbe(t) /\ UNCHANGED nonPollVars

PollCacheNext ==
    \/ start_status_polling_set
    \/ start /\ UNCHANGED nonPollVars
    \/ stop /\ UNCHANGED nonPollVars
    \/ \E t \in TaskStates : LoopTick(t) /\ UNCHANGED nonPollVars
    \/ \E t \in TaskStates : LoopBackoff(t) /\ UNCHANGED nonPollVars
    \/ \E t \in TaskStates : PollProbe(t)
    \/ clear_all_caches /\ UNCHANGED nonDetVars

PollCacheSpecInit ==
    /\ PollInit /\ CacheAfterDetectAll /\ DetectorInit
    /\ PipelineIdle /\ StatusIdle /\ VersionIdle

\* The poller at work beside a filled cache, within the ttl of its entries.
PollCacheSpec == PollCacheSpecInit /\ [][PollCacheNext]_vars

nonPollStatusVars == <<cacheVars, detVars, pipeVars, versionVars>>

PollStatusNext ==
    \/ \E list \in RuntimeLists : set_runtimes(list) /\ UNCHANGED nonPollVars
    \/ start /\ UNCHANGED nonPollVars
    \/ \E t \in TaskStates : LoopTick(t) /\ UNCHANGED nonPollVars
    \/ \E t \in TaskStates : LoopBackoff(t) /\ UNCHANGED nonPollVars
    \/ \E t \in TaskStates : poll_check_begin(t) /\ UNCHANGED nonPollStatusVars
    \/ timer_tick /\ PollerIdle /\ UNCHANGED nonPollStatusVars
    \/ \E outcome \in PolledEnds : child_ends(outcome) /\ PollerIdle /\ UNCHANGED nonPollStatusVars
    \/ \E t \in TaskStates : poll_check_return(t) /\ UNCHANGED nonPollStatusVars
    \/ \E outcome \in PolledEnds : child_ends_late(outcome) /\ UNCHANGED nonPollStatusVars

PollStatusSpecInit ==
    /\ PollInit /\ StatusIdle
    /\ CacheIdle /\ DetectorInit /\ PipelineIdle /\ VersionIdle

\* One tick loop, never stopped, whose probes are check_status calls.
PollStatusSpec == PollStatusSpecInit /\ [][PollStatusNext]_vars

PollFairNext ==
    \/ \E list \in RuntimeLists : set_runtimes(list) /\ UNCHANGED nonPollVars
    \/ start /\ UNCHANGED nonPollVars
    \/ \E t \in TaskStates : LoopTick(t) /\ UNCHANGED nonPollVars
    \/ \E t \in TaskStates : LoopBackoff(t) /\ UNCHANGED nonPollVars
    \/ \E t \in TaskStates : LoopProbe(t) /\ UNCHANGED nonPollVars

\* The interval timer fires, and check_status returns.
FairTick == \E t \in TaskStates : LoopTick(t) /\ UNCHANGED nonPollVars

FairProbe == \E t \in TaskStates : LoopProbe(t) /\ UNCHANGED nonPollVars

\* The draw 0, a multiple of every backoff interval, at task state t.
FairDraw(t) == Backoff(t, 0) /\ UNCHANGED nonPollVars

PollFairSpecInit ==
    /\ PollInit /\ CacheIdle /\ DetectorInit
    /\ PipelineIdle /\ StatusIdle /\ VersionIdle

\* A poller that is started and never stopped.  Its timer and its probes make
\* progress, and a draw that comes up again and again with a fair generator
\* is taken at a backoff decision that is reached again and again.
PollFairSpec ==
    /\ PollFairSpecInit
    /\ [][PollFairNext]_vars
    /\ WF_vars(FairTick)
    /\ WF_vars(FairProbe)
    /\ \A t \in { t \in TaskStates : t.pc = "backoff" } : SF_vars(FairDraw(t))

PipelineNext ==
    \/ \E k \in RuntimeType, pf \in Platforms, t \in Timeouts :
          detect_start(k, pf, t) /\ UNCHANGED nonPipeVars
    \/ \E on_path, in_dir, wsl_exe \in BOOLEAN, dt, dt_wsl \in 0 .. 1 :
          locate(on_path, in_dir, wsl_exe, dt, dt_wsl) /\ UNCHANGED nonPipeVars
    \/ timeout_check /\ UNCHANGED nonPipeVars
    \/ \E exec_bit \in BOOLEAN, dt \in 0 .. 1 : verify(exec_bit, dt) /\ UNCHANGED nonPipeVars
    \/ \E output \in VersionOutputs, dt \in 0 .. 1 :
          get_version(output, dt) /\ UNCHANGED nonPipeVars
    \/ \E mode \in {"Rootless", "Rootful"}, dt \in 0 .. 1 :
          detect_rootless_mode(mode, dt) /\ UNCHANGED nonPipeVars
    \/ \E running \in BOOLEAN, dt \in 0 .. 1 : check_running(running, dt) /\ UNCHANGED nonPipeVars
    \/ validate_and_push /\ UNCHANGED nonPipeVars

PipelineSpecInit == PipelineIdle /\ PollInit /\ CacheIdle /\ DetectorInit /\ StatusIdle /\ VersionIdle

\* One detection pipeline after another, on any platform.
PipelineSpec == PipelineSpecInit /\ [][PipelineNext]_vars

StatusTimer == timer_tick /\ UNCHANGED nonStatusVars

StatusReturn == check_return /\ UNCHANGED nonStatusVars

StatusNext ==
    \/ \E k \in RuntimeType, path \in ProbePaths :
          check_status(k, path) /\ UNCHANGED nonStatusVars
    \/ \E path \in ProbePaths : \E outcome \in ChildEnds(path) :
          child_ends(outcome) /\ UNCHANGED nonStatusVars
    \/ StatusTimer
    \/ StatusReturn

StatusSpecInit == StatusIdle /\ PipelineIdle /\ PollInit /\ CacheIdle /\ DetectorInit /\ VersionIdle

\* check_status called again and again.  The timer runs and a ready future is
\* polled; nothing makes a child end.
StatusSpec ==
    /\ StatusSpecInit
    /\ [][StatusNext]_vars
    /\ WF_vars(StatusTimer)
    /\ WF_vars(StatusReturn)

VersionNext == parse_version_call /\ UNCHANGED nonVersionVars

VersionSpecInit ==
    /\ ver \in {[pc |-> "input", text |-> t] : t \in VersionInputs(MaxTokens)}
    /\ StatusIdle /\ PipelineIdle /\ PollInit /\ CacheIdle /\ DetectorInit

\* parse_version applied to every text of up to MaxTokens pieces.
VersionSpec == VersionSpecInit /\ [][VersionNext]_vars

ValidateNext == \E kind \in RuntimeType : validate_call(kind) /\ UNCHANGED nonVersionVars

ValidateSpecInit ==
    /\ ver \in {[pc |-> "triple", version |-> v] : v \in VersionTriples}
    /\ StatusIdle /\ PipelineIdle /\ PollInit /\ CacheIdle /\ DetectorInit

\* The validators applied to every triple up to (MaxMajor, MaxMinor, MaxPatch).
ValidateSpec == ValidateSpecInit /\ [][ValidateNext]_vars

(***************************************************************************)
(* Properties of the PollingService, checked under Spec.                   *)
(***************************************************************************)
\* The counter a failure map holds for id; an absent counter means zero.
Count(fc, id) == IF id \in DOMAIN fc THEN fc[id] ELSE 0

\* The state of task t once it waits for the probe of the runtime it is at.
Probing(t) == [t EXCEPT !.pc = "probe"]

\* The task states at the backoff decision, and those waiting for a probe.
AtBackoff == { t \in TaskStates : t.pc = "backoff" }

AtProbe == { t \in TaskStates : t.pc = "probe" }

\* C1: start() on a running service returns an error, leaves the flag true and
\* spawns no tick loop; start() on a stopped service sets the flag and spawns
\* exactly one tick loop.  (Only start sets ret.)
C1_StartGuard ==
    [][ ret' # None =>
          IF is_running
          THEN ret' = "Err" /\ is_running' = TRUE /\ tasks' = tasks
          ELSE /\ ret' = "Ok"
               /\ is_running' = TRUE
               /\ NumTasks(tasks') = NumTasks(tasks) + 1
               /\ tasks' = [tasks EXCEPT !["tick"][<<>>][FALSE] = @ + 1] ]_vars

C1_Witness == ret = "Err" /\ is_running /\ NumTasks(tasks) = 1

\* C2: after any interleaving of start() and stop(), at most one tick loop is
\* alive at any time.
C2_AtMostOneTickLoop == NumTasks(tasks) <= 1

\* C3: once stop() has returned, a tick loop spawned before it exits at the top
\* of its next tick and starts no further pass over the runtimes.
C3_StoppedLoopExits ==
    [][ \A t \in TaskStates :
          t.stopped /\ LoopTick(t) => tasks' = Put(tasks, t, At(tasks, t) - 1) ]_vars

\* C4: every stored failure counter is between 1 and 5.
C4_CounterRange ==
    \A id \in DOMAIN failure_counts :
        failure_counts[id] >= 1 /\ failure_counts[id] <= 5

C4_Witness ==
    /\ Docker \in DOMAIN failure_counts /\ failure_counts[Docker] = 5
    /\ Podman \in DOMAIN failure_counts /\ failure_counts[Podman] = 1

\* C5: a probe that returns Error or Unknown sets the runtime's counter to
\* min(old + 1, 5); one that returns Running or Stopped removes the counter;
\* the counters of the other runtimes stay as they are.
C5_CounterUpdate ==
    [][ \A t \in AtProbe :
          At(tasks', t) < At(tasks, t) =>
            \A s \in RuntimeStatus :
              Probe(t, s) =>
                LET id  == Head(t.current_runtimes)
                    old == Count(failure_counts, id)
                IN  /\ s \in {"Error", "Unknown"} =>
                         /\ id \in DOMAIN failure_counts'
                         /\ failure_counts'[id] = Min(old + 1, 5)
                    /\ s \in {"Running", "Stopped"} => id \notin DOMAIN failure_counts'
                    /\ \A other \in RuntimeIds \ {id} :
                         /\ (other \in DOMAIN failure_counts')
                              = (other \in DOMAIN failure_counts)
                         /\ Count(failure_counts', other) = Count(failure_counts, other) ]_vars

C5_Witness ==
    /\ emitted # <<>>
    /\ emitted[1].status = "Unknown"
    /\ Count(failure_counts, emitted[1].runtime_id) = 5
    /\ \E id \in RuntimeIds : id \notin DOMAIN failure_counts

MaxCount == 8        \* counters the backoff factor is evaluated for

\* C6: a runtime with no counter (or 0) is never skipped; with counter c > 0 it
\* is probed only when the draw modulo 2^min(c,5) is 0; the backoff factor is
\* non-decreasing in c and at most 32.
C6_Backoff ==
    /\ \A c1 \in 0 .. MaxCount, c2 \in 0 .. MaxCount :
          /\ c1 <= c2 => backoff_intervals(c1) <= backoff_intervals(c2)
          /\ backoff_intervals(c1) <= 32
    /\ [][ \A t \in AtBackoff :
             At(tasks', t) < At(tasks, t) =>
               LET c      == Count(failure_counts, Head(t.current_runtimes))
                   probed == At(tasks', Probing(t)) = At(tasks, Probing(t)) + 1
               IN  IF c = 0
                   THEN probed \/ \A d \in Draws : ~Backoff(t, d)
                   ELSE \A d \in Draws :
                          \/ probed <=> d % Pow2(Min(c, 5)) = 0
                          \/ ~Backoff(t, d) ]_vars

C6_Witness ==
    \E t \in TaskStates :
        /\ NumTasks(tasks) = 1
        /\ At(tasks, t) = 1
        /\ t.pc = "probe"
        /\ Count(failure_counts, Head(t.current_runtimes)) = 5

\* C7: a probe emits exactly one event, with the runtime's id, the status just
\* returned and no error; no other step emits; a step after which fewer tasks
\* are at the backoff decision of a runtime and no more are probing it (a
\* backoff skip, or stop() marking the task) emits nothing and changes no
\* counter.
C7_OneEventPerProbe ==
    [][ /\ \A t \in AtProbe :
             At(tasks', t) < At(tasks, t) =>
               \A s \in RuntimeStatus :
                 Probe(t, s) =>
                   emitted' = << [runtime_id |-> Head(t.current_runtimes),
                                  status |-> s, error |-> None] >>
        /\ emitted' # <<>> =>
             \E t \in AtProbe : At(tasks', t) < At(tasks, t)
        /\ \A t \in AtBackoff :
             /\ At(tasks', t) < At(tasks, t)
             /\ At(tasks', Probing(t)) <= At(tasks, Probing(t))
             => emitted' = <<>> /\ failure_counts' = failure_counts ]_vars

C7_Witness ==
    /\ emitted = << [runtime_id |-> Podman, status |-> "Error", error |-> None] >>
    /\ NumTasks(tasks) = 1
    /\ \E t \in TaskStates : At(tasks, t) = 1 /\ t.pc = "tick"

\* C8: the held list is always the list last passed to set_runtimes; a tick
\* takes exactly that list as its snapshot, whether or not the flag is still
\* set when a later step of the pass runs; set_runtimes changes no snapshot
\* already taken.
C8_WholesaleReplace ==
    /\ [](runtimes = lastSet)
    /\ [][ /\ \A t \in TaskStates :
                is_running /\ LoopTick(t) =>
                  tasks' = Move(tasks, t,
                                [pc |-> IF lastSet = <<>> THEN "tick" ELSE "backoff",
                                 current_runtimes |-> lastSet,
                                 stopped |-> t.stopped])
           /\ lastSet' # lastSet => tasks' = tasks ]_vars

C8_Witness ==
    \E t \in TaskStates :
        /\ ~is_running
        /\ At(tasks, t) = 1
        /\ t.pc = "probe"
        /\ t.current_runtimes = <<Docker, Podman>>
        /\ runtimes = <<Podman>>

(***************************************************************************)
(* Properties of the DetectionCache, checked under CacheSpec.              *)
(***************************************************************************)
\* C9: get(kind) returns a result only while the clock is strictly before the
\* entry's expiry, the clock reading of the set that wrote it plus the ttl.
C9_NeverPastExpiry ==
    cacheLast.op = "get" /\ cacheLast.ret # None =>
        /\ cacheLast.kind \in DOMAIN setAt
        /\ now < setAt[cacheLast.kind] + ttl

C9_Witness ==
    /\ cacheLast.op = "get"
    /\ cacheLast.ret = None
    /\ cacheLast.kind \in DOMAIN entries
    /\ ttl > 0
    /\ now = setAt[cacheLast.kind] + ttl

\* C10 as claimed: set(k, r) then get(k) with no time in between returns r,
\* whatever the ttl.
C10_RoundTripAnyTTL ==
    [][ /\ cacheLast.op = "set"
        /\ cacheLast.at = now
        /\ cacheLast'.op = "get"
        /\ cacheLast'.kind = cacheLast.kind
        => cacheLast'.ret = cacheLast.result ]_vars

\* C10 amended: set(k, r) then get(k) with no time passed since set read the
\* clock returns r when the ttl is positive and none when it is 0; once more
\* than the ttl has passed since the set that wrote the entry, get returns none.
C10_RoundTrip ==
    /\ [][ /\ cacheLast.op = "set"
           /\ cacheLast.at = now
           /\ cacheLast'.op = "get"
           /\ cacheLast'.kind = cacheLast.kind
           => cacheLast'.ret = IF ttl > 0 THEN cacheLast.result ELSE None ]_vars
    /\ [](/\ cacheLast.op = "get"
          /\ cacheLast.kind \in DOMAIN setAt
          /\ now > setAt[cacheLast.kind] + ttl
          => cacheLast.ret = None)

C10_Witness ==
    /\ cacheLast.op = "get"
    /\ cacheLast.ret = "one runtime"
    /\ ttl = 1
    /\ now > 0
    /\ setAt[cacheLast.kind] = now

\* C11: clear_all() empties the map and clear(k) removes k, whether the entry
\* was fresh or expired; a kind that is not in the map comes back only by the
\* insert of a set for that kind, and until then get(k) returns none.
C11_ClearedUntilSet ==
    [][ /\ cacheLast'.op = "clear_all" => entries' = <<>>
        /\ cacheLast'.op = "clear" =>
              /\ cacheLast'.kind \notin DOMAIN entries'
              /\ \A k \in RuntimeType \ {cacheLast'.kind} :
                    (k \in DOMAIN entries') = (k \in DOMAIN entries)
        /\ \A k \in RuntimeType :
              k \notin DOMAIN entries /\ k \in DOMAIN entries' =>
                cacheLast'.op = "set" /\ cacheLast'.kind = k
        /\ cacheLast'.op = "get" /\ cacheLast'.kind \notin DOMAIN entries =>
              cacheLast'.ret = None ]_vars

C11_Witness ==
    /\ cacheLast.op = "clear_all"
    /\ cacheLast.fresh # {}
    /\ cacheLast.expired # {}
    /\ entries = <<>>

(***************************************************************************)
(* Properties of the RuntimeDetector, checked under DetectorSpec and       *)
(* DetectAllSpec.                                                          *)
(***************************************************************************)
\* C12: a call that finds a fresh entry for its kind returns that entry and
\* starts no pipeline; a call that finds none starts one pipeline, hands the
\* pipeline's result to cache.set and returns that same result; a call of the
\* same kind that begins right after a return, while the entry is still fresh,
\* returns the same result again and starts no pipeline.
C12_CacheFirst ==
    [][ /\ \A k \in RuntimeType :
              detect_begin(k, FALSE) =>
                IF k \in Fresh
                THEN /\ calls' = calls
                     /\ returned' = [kind |-> k, result |-> entries[k].result]
                ELSE /\ BagCardinality(calls') = BagCardinality(calls) + 1
                     /\ BagIn([pc |-> "pipeline", kind |-> k, join |-> FALSE], calls')
                     /\ returned' = NoReturn
        /\ \A c \in Calls :
              /\ c.pc = "pipeline" =>
                   \A r \in PipelineResults :
                     pipeline_done(c, r) =>
                       \E d \in BagToSet(calls') :
                          d.pc = "set" /\ d.kind = c.kind /\ d.result = r
              /\ c.pc = "set" /\ detect_set(c) =>
                   \E s \in BagToSet(in_flight') :
                      /\ CopiesIn(s, in_flight') = CopiesIn(s, in_flight) + 1
                      /\ s.kind = c.kind
                      /\ s.result = c.result
              /\ c.pc = "insert" /\ detect_return(c) =>
                   /\ returned' = [kind |-> c.kind, result |-> c.result]
                   /\ entries'[c.kind].result = c.result
        /\ returned.kind # None =>
              (returned.kind \in Fresh /\ detect_begin(returned.kind, FALSE)
               => calls' = calls /\ returned' = returned) ]_vars

C12_Witness ==
    /\ returned.kind # None
    /\ returned.result = "error"
    /\ cacheLast.op = "get"
    /\ now > 0

\* C13: a detection call never returns from the cache a result that a pipeline
\* had computed before a clear_all_caches() that has since returned.
C13_FreshAfterClear ==
    returned.kind # None /\ cacheLast.op = "get" => ~origin[returned.kind]

\* C14: detect_all returns the runtimes of the Docker result followed by the
\* runtimes of the Podman result, each result being what the future of that
\* kind returned: a kind that found no runtime or reported an error adds
\* nothing and takes nothing away from the other kind.
C14_AllIsBothLists ==
    /\ [](all_call.pc = "done" =>
            LET found(r) == IF r = "one runtime" THEN 1 ELSE 0
            IN  /\ Len(all_call.ret) = found(all_call.Docker) + found(all_call.Podman)
                /\ all_call.Docker = "one runtime" => all_call.ret[1] = Docker
                /\ all_call.Podman = "one runtime" =>
                      all_call.ret[Len(all_call.ret)] = Podman)
    /\ [][ /\ returned'.kind # None =>
                all_call'[returned'.kind] = returned'.result
           /\ all_call'.pc = "done" /\ all_call.pc = "join" =>
                /\ all_call'.Docker = all_call.Docker
                /\ all_call'.Podman = all_call.Podman ]_vars

C14_Witness ==
    /\ all_call.pc = "done"
    /\ all_call.Docker = "error"
    /\ all_call.Podman = "one runtime"
    /\ all_call.ret = <<Podman>>

(***************************************************************************)
(* Properties of the detection pipelines, checked under PipelineSpec.      *)
(***************************************************************************)
\* C15: a pipeline that ran where no executable of its kind is installed, on
\* the search path, in a platform directory or on the Windows side of WSL,
\* returns zero runtimes and zero errors.
C15_NotFoundIsSilent ==
    pipe.pc = "done" /\ ~pipe.installed =>
        pipe.runtimes = <<>> /\ pipe.errors = <<>>

\* C18: a pipeline that located an executable and was over its budget at the
\* end of any stage returns the error "Detection timeout exceeded" and no
\* Runtime.
C18_TimeoutAtEveryStage ==
    /\ pipe.pc = "done"
    /\ pipe.path # None
    /\ \E i \in DOMAIN pipe.stages : pipe.stages[i].at > pipe.timeout
    =>
        /\ pipe.runtimes = <<>>
        /\ pipe.errors = <<"Detection timeout exceeded">>

\* The place of a stage in the order locate, verify, version query, version
\* validation, status probe, mode query.
StageRank(stage) ==
    CASE stage = "locate" -> 1
      [] stage = "verify" -> 2
      [] stage = "version query" -> 3
      [] stage = "version validation" -> 4
      [] stage = "status probe" -> 5
      [] stage = "mode query" -> 6

\* C19: the stages a pipeline has run so far ran in the order locate, verify,
\* version query, version validation, status probe, mode query.
C19_StageOrder ==
    pipe.pc # "idle" =>
        \A i, j \in DOMAIN pipe.stages :
            i < j => StageRank(pipe.stages[i].stage) < StageRank(pipe.stages[j].stage)

(***************************************************************************)
(* Properties of the status probe, checked under StatusSpec.               *)
(***************************************************************************)
\* C16: check_status returns Running for an exit code of zero, Error for a
\* non-zero exit whose stderr contains "permission denied", Stopped for any
\* other non-zero exit and for a child that could not be spawned, Unknown
\* when the timer ran out; Error is returned for nothing but a non-zero exit
\* with a permission-denied stderr, never for a nonexistent path.
C16_StatusOfOutcome ==
    check.pc = "done" =>
        LET o == check.child
            denied == /\ o.end = "exit"
                      /\ o.code # 0
                      /\ \E i \in 1 .. Len(o.stderr) - 1 :
                            o.stderr[i] = "permission" /\ o.stderr[i + 1] = "denied"
        IN  /\ o.end = "exit" => /\ o.code = 0 => check.status = "Running"
                                 /\ o.code # 0 /\ ~denied => check.status = "Stopped"
            /\ denied <=> check.status = "Error"
            /\ o.end = "spawn failed" => check.status = "Stopped"
            /\ o.end = "running" => check.status = "Unknown"
            /\ check.path = "/nonexistent/docker" => check.status \in {"Stopped", "Unknown"}

C16_Witness ==
    /\ check.pc = "done"
    /\ check.status = "Error"
    /\ check.child.end = "exit"
    /\ check.elapsed < STATUS_CHECK_TIMEOUT

\* C17: every check_status call returns; a call whose child has not ended
\* when the 3 seconds are over returns Unknown then, and Unknown is returned
\* in no other case.
C17_ProbeReturns ==
    /\ (check.pc = "waiting") ~> (check.pc = "done")
    /\ [](check.pc = "done" =>
            (check.status = "Unknown" <=>
                check.child = StillRunning /\ check.elapsed = STATUS_CHECK_TIMEOUT))
    /\ [](check.pc = "waiting" => check.elapsed <= STATUS_CHECK_TIMEOUT)

C17_Witness ==
    /\ check.pc = "done"
    /\ check.child = StillRunning
    /\ check.status = "Unknown"

(***************************************************************************)
(* Properties of the version parser, checked under VersionSpec.            *)
(***************************************************************************)
\* A non-empty run of the digits 0 to 9 from i to j.
Digits(text, i, j) ==
    i <= j /\ \A k \in i .. j : \E n \in 0 .. 9 : text[k] = AsciiDigits[n + 1]

\* The substrings of the form digits.digits.digits: where the substring
\* starts, where its two dots are, where it ends.
Triples(text) ==
    LET dots == { k \in 1 .. Len(text) : text[k] = "." }
        middles == { p \in dots \X dots : Digits(text, p[1] + 1, p[2] - 1) }
    IN  UNION { { <<i, p[1], p[2], j>> :
                    i \in { i \in 1 .. p[1] - 1 : Digits(text, i, p[1] - 1) },
                    j \in { j \in p[2] + 1 .. Len(text) : Digits(text, p[2] + 1, j) } } :
                p \in middles }

\* The first such substring, taken as far as its digits go.
FirstTriple(text) ==
    CHOOSE q \in Triples(text) :
        \A r \in Triples(text) : q[1] < r[1] \/ (q[1] = r[1] /\ q[4] >= r[4])

\* C20: parse_version succeeds exactly on the texts that contain a substring
\* digits.digits.digits, and then returns the numbers of the first one, with
\* full put together again as major.minor.patch.
C20_ParsesEveryTriple ==
    ver.pc = "parsed" =>
        /\ ver.result.ok <=> Triples(ver.text) # {}
        /\ ver.result.ok =>
             LET q == FirstTriple(ver.text)
                 number(i, j) == StripZeros(SubSeq(ver.text, i, j))
             IN  /\ ver.result.major = number(q[1], q[2] - 1)
                 /\ ver.result.minor = number(q[2] + 1, q[3] - 1)
                 /\ ver.result.patch = number(q[3] + 1, q[4])
                 /\ ver.result.full = ver.result.major \o <<".">> \o ver.result.minor
                                          \o <<".">> \o ver.result.patch

\* Is the triple v at least the triple w in lexicographic order.
AtLeast(v, w) ==
    \/ v[1] > w[1]
    \/ v[1] = w[1] /\ v[2] > w[2]
    \/ v[1] = w[1] /\ v[2] = w[2] /\ v[3] >= w[3]

\* C21: validate_docker_version is true exactly for the triples that are
\* lexicographically at least (20, 10, 0), validate_podman_version exactly
\* for those at least (3, 0, 0).
C21_MinimumVersion ==
    ver.pc = "validated" =>
        (ver.valid <=> AtLeast(ver.version,
                               IF ver.kind = "Docker" THEN <<20, 10, 0>> ELSE <<3, 0, 0>>))

C21_Witness ==
    /\ ver.pc = "validated"
    /\ ver.kind = "Docker"
    /\ ver.version = <<21, 0, 0>>
    /\ ver.valid

\* C22: a detector constructed with cache_ttl = T returns no cached result
\* once T milliseconds have passed since the result was stored.  (Under
\* DetectorTtlSpec the clock counts milliseconds, and T is ttl / 1000.)
C22_TtlInMilliseconds ==
    returned.kind # None /\ cacheLast.op = "get" =>
        now < setAt[returned.kind] + (ttl \div MillisPerSecond)

(***************************************************************************)
(* Properties of the poller beside the cache, checked under PollCacheSpec. *)
(***************************************************************************)
\* C23: no step of a tick loop changes the detection cache: a step that
\* changes a stored entry is a clear or a set of the cache, and it starts no
\* loop iteration, updates no failure counter and emits no event.
C23_PollerLeavesCache ==
    [][ \/ entries' = entries /\ setAt' = setAt
        \/ /\ cacheLast'.op \in {"clear", "clear_all", "set"}
           /\ tasks' = tasks
           /\ failure_counts' = failure_counts
           /\ emitted' = emitted ]_vars

C23_Witness ==
    /\ emitted = <<StatusUpdate(Docker, "Error")>>
    /\ Count(failure_counts, Docker) = 1
    /\ "Docker" \in DOMAIN entries
    /\ entries["Docker"].result = "one runtime"

(***************************************************************************)
(* Properties of the tick loop's probes, checked under PollStatusSpec.     *)
(***************************************************************************)
\* C24: the return of a probe that timed out adds exactly one failure to the
\* counter of its runtime (up to the cap) and emits exactly one event, with
\* status Unknown; the later end of its child changes no failure counter and
\* emits no event.
C24_LateResultDropped ==
    [][ /\ check.pc = "waiting" /\ check'.pc = "done" /\ check.child = StillRunning =>
             LET runtime_id == IF check.kind = "Docker" THEN Docker ELSE Podman
             IN  /\ emitted' = <<[runtime_id |-> runtime_id, status |-> "Unknown",
                                  error |-> None]>>
                 /\ Count(failure_counts', runtime_id)
                       = Min(Count(failure_counts, runtime_id) + 1, MaxFailures)
                 /\ \A id \in RuntimeIds \ {runtime_id} :
                       Count(failure_counts', id) = Count(failure_counts, id)
        /\ "late" \in DOMAIN check' /\ "late" \notin DOMAIN check =>
             /\ failure_counts' = failure_counts
             /\ emitted' = <<>> ]_vars

C24_Witness ==
    /\ check.pc = "done"
    /\ check.status = "Unknown"
    /\ "late" \in DOMAIN check
    /\ check.late.end = "exit"
    /\ check.late.code = 0
    /\ Count(failure_counts, Docker) = 1
    /\ check.kind = "Docker"

\* C26: the path find_docker_executable / find_podman_executable returned is
\* the path of an existing file, and with no executable on the search path or
\* in a platform directory they return none.
C26_LocatedIsAFile ==
    pipe.pc = "located" /\ pipe.path # WslDockerExe =>
        /\ pipe.path # None => is_file(pipe.path, pipe.in_dir)
        /\ ~pipe.installed => pipe.path = None

\* C28: a finished pipeline returns nothing at all (and then located
\* nothing), or one Runtime with every field set (the mode for Podman only)
\* and no error, or no Runtime and one error; without a parsed version there
\* is no Runtime.
C28_ResultShapes ==
    pipe.pc = "done" =>
        /\ \/ pipe.runtimes = <<>> /\ pipe.errors = <<>> /\ pipe.path = None
           \/ /\ Len(pipe.runtimes) = 1
              /\ pipe.errors = <<>>
              /\ LET r == pipe.runtimes[1]
                 IN  /\ r.runtime_type = pipe.kind
                     /\ r.path = pipe.path /\ r.path # None
                     /\ r.id = <<pipe.kind, pipe.path>>
                     /\ r.version \in Versions
                     /\ r.status \in {"Running", "Stopped"}
                     /\ r.mode \in {"Rootless", "Rootful"} <=> pipe.kind = "Podman"
                     /\ r.mode = None <=> pipe.kind = "Docker"
           \/ pipe.runtimes = <<>> /\ Len(pipe.errors) = 1 /\ pipe.path # None
        /\ pipe.version = NoVersion => pipe.runtimes = <<>>

C28_Witness ==
    /\ pipe.pc = "done"
    /\ pipe.kind = "Podman"
    /\ pipe.errors = <<"Failed to parse version">>
    /\ pipe.runtimes = <<>>
    /\ pipe.path = OnSearchPath

(***************************************************************************)
(* Properties of overlapping detection calls, checked under                *)
(* DetectOverlapSpec.                                                      *)
(***************************************************************************)
\* C29 as claimed: of the calls of one kind that are in progress past their
\* look into the cache, only one runs a pipeline, so no two of them are there
\* at once with a pipeline or a result of their own.
C29_SinglePipeline ==
    \A c \in Calls, d \in Calls :
        c.kind = d.kind => c = d /\ CopiesIn(c, calls) = 1

\* C29 amended: a call that finds no fresh entry while another call of its
\* kind is in progress starts a pipeline of its own; each call returns what
\* its own pipeline returned, whatever the other call got, and the cache then
\* holds the result of the call that returned last.
C29_OwnPipeline ==
    [][ /\ \A k \in RuntimeType, join \in BOOLEAN :
              /\ k \notin Fresh
              /\ \E d \in Calls : d.kind = k
              /\ detect_begin(k, join)
              => /\ BagCardinality(calls') = BagCardinality(calls) + 1
                 /\ BagIn([pc |-> "pipeline", kind |-> k, join |-> join], calls')
                 /\ returned' = NoReturn
        /\ \A c \in Calls :
              /\ c.pc = "insert"
              /\ detect_return(c)
              => /\ returned' = [kind |-> c.kind, result |-> c.result]
                 /\ entries'[c.kind].result = c.result
                 /\ c.join => all_call'[c.kind] = c.result ]_vars

C29_Witness ==
    /\ all_call.pc = "join"
    /\ all_call.Docker = "one runtime"
    /\ returned.kind = "Docker"
    /\ returned.result = "one runtime"
    /\ cacheLast.op = "set"
    /\ \E c \in Calls :
          /\ c.kind = "Docker"
          /\ ~c.join
          /\ c.pc = "set"
          /\ c.result = "no runtime"

(***************************************************************************)
(* Further properties of the polling service, checked under Spec.          *)
(***************************************************************************)
\* C27: a probe, whatever status it returns, sends its task on to the next
\* runtime of the tick's snapshot, or back to the timer after the last one; a
\* backoff decision sends it to the probe of the runtime or on to the next
\* runtime; and a task ends only at the timer, when is_running is false.
C27_TickGoesOn ==
    [][ /\ \A t \in AtProbe :
             At(tasks', t) < At(tasks, t) /\ emitted' # <<>> =>
                 tasks' = Move(tasks, t, Advance(t))
        /\ \A t \in AtBackoff :
             At(tasks', t) < At(tasks, t) /\ is_running' = is_running =>
                 \/ tasks' = Move(tasks, t, Advance(t))
                 \/ tasks' = Move(tasks, t, Probing(t))
        /\ \A t \in TaskStates :
             At(tasks, t) > 0 /\ tasks' = Exited(tasks, t) =>
                 t.pc = "tick" /\ ~is_running ]_vars

C27_Witness ==
    /\ emitted = <<StatusUpdate(Docker, "Error")>>
    /\ is_running
    /\ At(tasks, [pc |-> "backoff", current_runtimes |-> <<Podman>>,
                  stopped |-> FALSE]) = 1
    /\ Count(failure_counts, Docker) = 1

\* C30: a step that emits no event, as every stop(), start() and
\* set_runtimes() is, leaves the failure-counter map as it was; a probe, the
\* one step that emits, changes no counter but that of the runtime it probed.
C30_CountersSurvive ==
    [][ IF emitted' = <<>>
        THEN failure_counts' = failure_counts
        ELSE \A id \in RuntimeIds \ {emitted'[1].runtime_id} :
                /\ id \in DOMAIN failure_counts' <=> id \in DOMAIN failure_counts
                /\ Count(failure_counts', id) = Count(failure_counts, id) ]_vars

C30_Witness ==
    /\ ret = "Ok"
    /\ is_running
    /\ runtimes = <<Podman>>
    /\ Count(failure_counts, Docker) = 2
    /\ Count(failure_counts, Podman) = 0

(***************************************************************************)
(* Properties of a poller that keeps running, checked under PollFairSpec.  *)
(***************************************************************************)
\* The held list contains the runtime.
Held(id) == \E i \in DOMAIN runtimes : runtimes[i] = id

\* The last step was a probe of the runtime.
JustProbed(id) == emitted # <<>> /\ emitted[1].runtime_id = id

\* C25: if from some moment on the poller runs and holds a runtime, then
\* whenever the runtime has failures counted it is probed again later; and a
\* backoff decision never skips a runtime that has no failure counted, so a
\* runtime is probed in every tick from a successful probe to its next failure.
C25_ProbedAgain ==
    /\ \A id \in RuntimeIds :
          <>[](is_running /\ Held(id)) =>
              [](Count(failure_counts, id) > 0 => <>JustProbed(id))
    /\ [][ \A t \in AtBackoff :
             At(tasks, t) > 0 /\ tasks' = Move(tasks, t, Advance(t)) =>
                 Count(failure_counts, Head(t.current_runtimes)) > 0 ]_vars

C25_Witness ==
    /\ is_running
    /\ Held(Podman)
    /\ JustProbed(Podman)
    /\ emitted[1].status = "Running"
    /\ Count(failure_counts, Docker) = 2
    /\ Count(failure_counts, Podman) = 0

====
